---- MODULE Spec2Model ----
(***************************************************************************)
(* The quantization engine of the conversion scripts: scripts/quantize.py  *)
(* (the stand-alone batch quantizer) and scripts/convert.py (the export    *)
(* pipeline's quantization step), as one state machine.  A behaviour runs  *)
(* one of the two entry points, chosen in Init, over a small file system.  *)
(*                                                                         *)
(* Strings that the code builds or takes apart (file names, suffixes) are  *)
(* sequences of one-character strings.  An optional value (Python's None   *)
(* or a value) is the empty sequence or a one-element sequence.  The       *)
(* third-party quantizers are environment steps: each either mutates the   *)
(* in-memory model it was given, or raises.                                *)
(***************************************************************************)
EXTENDS Integers, Sequences, FiniteSets, TLC

VARIABLES
    prog,       \* the entry point that runs: "quantize.py" or "convert.py"
    args,       \* the parsed command line (QuantizationArguments / ConversionArguments)
    fs,         \* the files on disk: a set of [dir, name, data]
    dirs,       \* the directories that exist
    pc,         \* the position of the running script
    err,        \* the exception that ended the script, or the last one caught
    model_names_or_paths,  \* the list of eligible input paths
    fi,         \* index of the current file in model_names_or_paths
    mi,         \* index of the current mode in the mode list
    model,      \* the in-memory onnx.ModelProto of the job, <<>> when none
    kwargs,     \* the parameters resolved for the current job
    faults,     \* how many steps have raised so far
    quantize_config,         \* convert.py quantize(): the configuration it returns
    outputs,                 \* convert.py quantize(): the paths it returns
    final_quantize_configs,  \* convert.py main(): mode -> configuration, as a sequence of entries
    stdout,                  \* what the script printed
    initial,    \* history: the files and directories the run started with
    log,        \* history: what was loaded, what each quantizer was called with, what was written
    graph_inputs,  \* get_operators on its own: the graphs it is called with, in order
    operators,     \* get_operators: the set `operators` of the call that runs
    walk,          \* get_operators: the calls of traverse_graph that have not returned,
                   \* each with the nodes its loop has still to visit (innermost first)
    returned,      \* history: the graph and the result of every call that returned
    inventoried    \* history: the jobs whose graph get_operators was called on

vars ==
    <<prog, args, fs, dirs, pc, err, model_names_or_paths, fi, mi, model, kwargs, faults,
      quantize_config, outputs, final_quantize_configs, stdout, initial, log,
      graph_inputs, operators, walk, returned, inventoried>>

\* the variables only convert.py writes
convert_vars == <<quantize_config, outputs, final_quantize_configs, stdout>>

\* the variables of a call of get_operators on its own
inventory_vars == <<graph_inputs, operators, walk, returned>>

\* the variables of the two scripts
script_vars ==
    <<fs, dirs, err, model_names_or_paths, fi, mi, model, kwargs, faults,
      quantize_config, outputs, final_quantize_configs, stdout, log, inventoried>>

\* what no step of the two scripts changes
const_vars == <<prog, args, initial, inventory_vars>>

\* what only the resolution of a job's parameters changes
fixed_vars == <<const_vars, inventoried>>

(***************************************************************************)
(* Bounds of the model.                                                    *)
(***************************************************************************)
\* the most entries the input folder holds
MaxFiles == 2
\* the deepest nesting of subgraphs in an input graph
MaxNest == 2
\* the most exceptions that leave a job in one run
MaxFaults == 1
\* the most nodes of a graph without subgraphs that get_operators is called with
MaxNodes == 2

(***************************************************************************)
(* Optional values and Python truthiness.                                  *)
(***************************************************************************)
None == <<>>
Some(v) == <<v>>
IsNone(o) == o = <<>>
OptBool == {None, Some(TRUE), Some(FALSE)}

\* Python's `x or d` for an optional integer x: d when x is None or 0
PyOr(x, d) == IF IsNone(x) \/ x = Some(0) THEN d ELSE x[1]

\* Python's `x if x is not None else d`
IfNotNone(x, d) == IF IsNone(x) THEN d ELSE x[1]

(***************************************************************************)
(* Strings.                                                                *)
(***************************************************************************)
Range(s) == { s[k] : k \in DOMAIN s }

EndsWith(s, suf) ==
    /\ Len(s) >= Len(suf)
    /\ SubSeq(s, Len(s) - Len(suf) + 1, Len(s)) = suf

\* os.path.splitext(name)[0] of a name without a directory part: cut at the
\* last dot, unless only dots precede it
SplitextRoot(name) ==
    LET dots == { k \in DOMAIN name : name[k] = "." }
    IN  IF dots = {} THEN name
        ELSE LET dotIndex == CHOOSE k \in dots : \A l \in dots : l <= k
             IN  IF \E k \in 1..(dotIndex - 1) : name[k] # "."
                 THEN SubSeq(name, 1, dotIndex - 1)
                 ELSE name

S_onnx == <<".", "o", "n", "n", "x">>
S_data == <<"_", "d", "a", "t", "a">>
S_fp16 == <<"f", "p", "1", "6">>
S_q8 == <<"q", "8">>
S_int8 == <<"i", "n", "t", "8">>
S_uint8 == <<"u", "i", "n", "t", "8">>
S_q4 == <<"q", "4">>
S_q4f16 == <<"q", "4", "f", "1", "6">>
S_bnb4 == <<"b", "n", "b", "4">>
S_quantized == <<"q", "u", "a", "n", "t", "i", "z", "e", "d">>

\* os.path.join(dir, name), os.path.basename, os.path.dirname on paths kept
\* as a directory and a name
Join(d, n) == [dir |-> d, name |-> n]
Basename(p) == p.name
Dirname(p) == p.dir

(***************************************************************************)
(* Graphs: a graph is a sequence of nodes, a node has an operator name and *)
(* attributes, and an attribute of type GRAPH carries a nested graph.      *)
(***************************************************************************)
Node(op, attrs) == [op_type |-> op, attribute |-> attrs]
Leaf(op) == Node(op, <<>>)
IntAttr == [type |-> "INT", g |-> <<>>]
GraphAttr(graph) == [type |-> "GRAPH", g |-> graph]

RECURSIVE Nest(_, _)
\* `inner` wrapped in d levels of control-flow nodes
Nest(d, inner) ==
    IF d = 0 THEN inner
    ELSE << Leaf("MatMul"),
            Node("If", << IntAttr, GraphAttr(<<Leaf("Add")>>), GraphAttr(Nest(d - 1, inner)) >>) >>

traverse_graph_top(graph) == { graph[k].op_type : k \in DOMAIN graph }

RECURSIVE traverse_graph(_)
\* quantize.py get_operators: the operator names of a graph and of the graphs
\* its GRAPH attributes carry
traverse_graph(graph) ==
    UNION { {graph[k].op_type} \cup
            UNION { IF a.type = "GRAPH" THEN traverse_graph(a.g) ELSE {}
                    : a \in Range(graph[k].attribute) }
          : k \in DOMAIN graph }

\* the graphs the input documents encode; a file's content names its document
GraphOf(doc) ==
    CASE doc = "nested_conv" -> Nest(MaxNest, <<Leaf("Conv")>>)
      [] doc = "conv_transpose" -> Nest(1, <<Leaf("ConvTranspose"), Leaf("MatMul")>>)
      [] OTHER -> <<>>

\* onnx.checker.MAXIMUM_PROTOBUF: the ceiling of a single serialized document
MAXIMUM_PROTOBUF == 2000000000

\* model.ByteSize(): the serialized size of an in-memory model.  The document
\* "conv_transpose" is one byte above the ceiling, the others far below it; a
\* 4-bit quantizer packs the weights, here by the one byte that brings the
\* large document down to the ceiling exactly
ByteSize(m) ==
    LET base == IF m.doc = "conv_transpose" THEN MAXIMUM_PROTOBUF + 1 ELSE 1000
        packed == \E i \in DOMAIN m.q : m.q[i].fn \in {"quantize_q4", "MatMul4BitsQuantizer"}
    IN  IF packed THEN base - 1 ELSE base

\* model.ByteSize() >= onnx.checker.MAXIMUM_PROTOBUF
Oversized(m) == ByteSize(m) >= MAXIMUM_PROTOBUF

\* the graph of an in-memory model: onnx.load_model decodes the document
get_operators(m) == traverse_graph(GraphOf(m.doc))

(***************************************************************************)
(* Modes.                                                                  *)
(***************************************************************************)
FP16 == "fp16"
Q8 == "q8"
QI8 == "int8"
QU8 == "uint8"
Q4 == "q4"
Q4F16 == "q4f16"
BNB4 == "bnb4"

\* the value of a QuantMode member, as a string of characters
ModeValue(mode) ==
    CASE mode = FP16 -> S_fp16
      [] mode = Q8 -> S_q8
      [] mode = QI8 -> S_int8
      [] mode = QU8 -> S_uint8
      [] mode = Q4 -> S_q4
      [] mode = Q4F16 -> S_q4f16
      [] mode = BNB4 -> S_bnb4

\* quantize.py: tuple(x.value for x in QuantMode)
QUANTIZE_OPTIONS == <<FP16, Q8, QI8, QU8, Q4, Q4F16, BNB4>>

QUANTIZE_SUFFIX_MAPPING_Collide(mode) ==
    IF mode \in {Q8, QI8} THEN S_quantized ELSE ModeValue(mode)
QUANTIZE_SUFFIX_MAPPING_NoQ8(mode) == ModeValue(mode)
\* quantize.py: QUANTIZE_SUFFIX_MAPPING.get(mode, mode.value)
QUANTIZE_SUFFIX_MAPPING(mode) ==
    IF mode = Q8 THEN S_quantized ELSE ModeValue(mode)

(***************************************************************************)
(* The inputs: what the input folder holds and what the command line says. *)
(***************************************************************************)
N_m == <<"m">> \o S_onnx
N_m_fp16 == <<"m", "_">> \o S_fp16 \o S_onnx
N_m_data == <<"m">> \o S_onnx \o S_data

\* the content of a file: the document it holds and the transformations it went through
\* (toposorted: the node list is known to be in topological order, as that of
\* a valid document is)
Data(doc) == [doc |-> doc, q |-> <<>>, toposorted |-> TRUE]

FilePool ==
    { [name |-> N_m, data |-> Data("nested_conv")],
      [name |-> N_m_fp16, data |-> Data("conv_transpose")],
      [name |-> N_m_data, data |-> Data("weights")] }

Folders == { D \in SUBSET FilePool : Cardinality(D) <= MaxFiles }

OptBlockSize == {None, Some(0), Some(16)}

\* MatMulBnb4Quantizer.FP4 and MatMulBnb4Quantizer.NF4
FP4 == 0
NF4 == 1

\* --quant_type: one of its two choices; NF4 when the option is not given
OptQuantType == {Some(FP4), Some(NF4)}

\* the numeric options of a command line: the 8-bit options in every
\* combination, or a block size, or a quant type other than the default
UserOptions ==
    { o \in [per_channel : OptBool, reduce_range : OptBool, block_size : OptBlockSize,
             quant_type : OptQuantType] :
        /\ o.block_size = None \/ (o.per_channel = None /\ o.reduce_range = None)
        /\ o.quant_type = Some(NF4)
              \/ (o.block_size = None /\ o.per_channel = None /\ o.reduce_range = None) }

\* quantize.py: the mode lists of the command line: none, one mode, or the default (all)
ModeLists == {<<>>, QUANTIZE_OPTIONS} \cup { <<m>> : m \in Range(QUANTIZE_OPTIONS) }

QuantizationArguments ==
    { [ modes |-> ms,
        quantize_mode |-> None,
        model_type |-> "",
        per_channel |-> o.per_channel,
        reduce_range |-> o.reduce_range,
        block_size |-> o.block_size,
        is_symmetric |-> TRUE,
        accuracy_level |-> None,
        quant_type |-> o.quant_type,
        input_folder |-> "in",
        output_folder |-> out ]
      : ms \in ModeLists, o \in UserOptions, out \in {"in", "out"} }

RECURSIVE Ascending(_)
\* the numbers of a set, smallest first
Ascending(S) ==
    IF S = {} THEN <<>>
    ELSE LET least == CHOOSE n \in S : \A k \in S : n <= k
         IN  <<least>> \o Ascending(S \ {least})

Orders(S) ==
    { f \in [1..Cardinality(S) -> S] : \A a, b \in DOMAIN f : a # b => f[a] # f[b] }

\* os.listdir(d): the names in directory d.  A directory lists its entries in
\* the order of their entry numbers: the initial order is arbitrary (Init),
\* and a new entry comes last
Listdir(d) ==
    LET inos == Ascending({ g.ino : g \in { h \in fs : h.dir = d } })
    IN  [ k \in DOMAIN inos |-> (CHOOSE g \in fs : g.ino = inos[k]).name ]

\* the input folder: at most MaxFiles files of the pool, listed in any order
InputFolders ==
    UNION { { { [dir |-> "in", name |-> o[k].name, data |-> o[k].data, ino |-> k] : k \in DOMAIN o }
              : o \in Orders(D) }
            : D \in Folders }

IsOnnx_Any(name) == TRUE
\* file.endswith(".onnx")
IsOnnx(name) == EndsWith(name, S_onnx)

FileAt(p) == CHOOSE f \in fs : f.dir = p.dir /\ f.name = p.name
Exists(p) == \E f \in fs : f.dir = p.dir /\ f.name = p.name

\* the file system after writing data at path p
Written(files, p, data) ==
    LET old == { f \in files : f.dir = p.dir /\ f.name = p.name }
        inos == { f.ino : f \in files }
        ino == IF old # {} THEN (CHOOSE f \in old : TRUE).ino
               ELSE 1 + (IF inos = {} THEN 0 ELSE CHOOSE n \in inos : \A k \in inos : k <= n)
    IN  (files \ old) \cup { [dir |-> p.dir, name |-> p.name, data |-> data, ino |-> ino] }

(***************************************************************************)
(* History.                                                                *)
(***************************************************************************)
NoKw ==
    [ per_channel |-> None, reduce_range |-> None, weight_type |-> None,
      block_size |-> None, is_symmetric |-> None, accuracy_level |-> None,
      quant_type |-> None, keep_io_types |-> None, disable_shape_infer |-> None ]

\* one entry of the history
Ev(ev, src, mode, model_in, kw, out) ==
    [ev |-> ev, src |-> src, mode |-> mode, model_in |-> model_in, kw |-> kw, out |-> out]

\* a quantizer mutates the model it is given in place
\* float16.convert_float_to_float16 inserts Cast nodes without regard to the
\* order of the node list; quantize_fp16 of quantize.py sorts the converted
\* graph (graph.toposort()), the conversions of convert.py do not
Toposorts(fn, before) ==
    CASE fn = "quantize_fp16" -> TRUE
      [] fn \in {"convert_float_to_float16", "convert_float_to_float16_external"} -> FALSE
      [] OTHER -> before

Mutate(m, fn, kw) ==
    [m EXCEPT !.q = Append(@, [fn |-> fn, kw |-> kw]),
              !.toposorted = Toposorts(fn, @)]

Raise(e) ==
    /\ faults < MaxFaults
    /\ faults' = faults + 1
    /\ pc' = "raised"
    /\ err' = e

(***************************************************************************)
(* scripts/quantize.py: quantize(input_folder, output_folder, args).       *)
(* No statement of it catches an exception: a step that raises ends the    *)
(* script.                                                                 *)
(***************************************************************************)
Q == prog = "quantize.py"

\* the job at hand: the current file and the current mode
model_path == model_names_or_paths[fi]
mode == args.modes[mi]

\* quantize.py: save_path of a file and a mode
save_path_of(folder, path, m) ==
    Join(folder, SplitextRoot(Basename(path)) \o <<"_">> \o QUANTIZE_SUFFIX_MAPPING(m) \o S_onnx)

save_path == save_path_of(args.output_folder, model_path, mode)

\* quantize.py (Step 1): validate the arguments, list the models, make the output folder
ValidateQ ==
    /\ Q /\ pc = "start"
    /\ UNCHANGED <<fixed_vars, fs, fi, mi, model, kwargs, faults, log, convert_vars>>
    /\ IF args.modes = <<>>
          THEN /\ pc' = "raised"
               /\ err' = "ValueError: At least one quantization mode must be specified"
               /\ UNCHANGED <<dirs, model_names_or_paths>>
       ELSE IF args.input_folder \notin dirs
          THEN /\ pc' = "raised"
               /\ err' = "ValueError: Input folder does not exist"
               /\ UNCHANGED <<dirs, model_names_or_paths>>
       ELSE    LET names == Listdir(args.input_folder)
                   paths == [ k \in DOMAIN SelectSeq(names, IsOnnx) |->
                                Join(args.input_folder, SelectSeq(names, IsOnnx)[k]) ]
               IN  IF paths = <<>>
                     THEN /\ pc' = "raised"
                          /\ err' = "ValueError: No .onnx models found"
                          /\ UNCHANGED <<dirs, model_names_or_paths>>
                     ELSE /\ dirs' = dirs \cup {args.output_folder}
                          /\ model_names_or_paths' = paths
                          /\ pc' = "load"
                          /\ err' = ""

LoadQ_Once ==
    /\ Q /\ pc = "load"
    /\ UNCHANGED <<fixed_vars, fs, dirs, model_names_or_paths, fi, mi, kwargs, convert_vars>>
    /\ IF mi = 1
         THEN /\ model' = Some(FileAt(model_path).data)
              /\ log' = Append(log, Ev("load", model_path, mode, Some(FileAt(model_path).data), NoKw, save_path))
         ELSE UNCHANGED <<model, log>>
    /\ pc' = "resolve"
    /\ UNCHANGED <<err, faults>>
\* quantize.py: model = onnx.load_model(model_path), anew for each mode
LoadQ ==
    /\ Q /\ pc = "load"
    /\ UNCHANGED <<fixed_vars, fs, dirs, model_names_or_paths, fi, mi, kwargs, convert_vars>>
    /\ \/ /\ Exists(model_path)
          /\ model' = Some(FileAt(model_path).data)
          /\ log' = Append(log, Ev("load", model_path, mode, Some(FileAt(model_path).data), NoKw, save_path))
          /\ pc' = "resolve"
          /\ UNCHANGED <<err, faults>>
       \/ /\ Raise("LoadError")
          /\ log' = Append(log, Ev("load_failed", model_path, mode, None, NoKw, save_path))
          /\ UNCHANGED model

weight_type_of_Auto(m, mdl) ==
    IF m \in {Q8, QI8}
      THEN (IF "Conv" \in get_operators(mdl) THEN "QUInt8" ELSE "QInt8")
      ELSE "QUInt8"
\* quantize.py: the weight type of the three 8-bit modes
weight_type_of(m, mdl) ==
    IF m = Q8
      THEN (IF "Conv" \in get_operators(mdl) THEN "QUInt8" ELSE "QInt8")
      ELSE IF m = QI8 THEN "QInt8" ELSE "QUInt8"

resolveQ_QuantTypeOr(m, mdl) ==
    CASE m = FP16 -> NoKw
      [] m \in {Q4, Q4F16} ->
            [NoKw EXCEPT !.block_size = Some(PyOr(args.block_size, 32)),
                         !.is_symmetric = Some(args.is_symmetric),
                         !.accuracy_level = args.accuracy_level]
      [] m = BNB4 ->
            [NoKw EXCEPT !.block_size = Some(PyOr(args.block_size, 64)),
                         !.quant_type = Some(PyOr(args.quant_type, NF4))]
      [] m \in {Q8, QI8, QU8} ->
            [NoKw EXCEPT !.per_channel = args.per_channel,
                         !.reduce_range = args.reduce_range,
                         !.weight_type = Some(weight_type_of(m, mdl))]
\* quantize.py: the arguments the quantizer of mode m is called with
resolveQ(m, mdl) ==
    CASE m = FP16 -> NoKw
      [] m \in {Q4, Q4F16} ->
            [NoKw EXCEPT !.block_size = Some(PyOr(args.block_size, 32)),
                         !.is_symmetric = Some(args.is_symmetric),
                         !.accuracy_level = args.accuracy_level]
      [] m = BNB4 ->
            [NoKw EXCEPT !.block_size = Some(PyOr(args.block_size, 64)),
                         !.quant_type = Some(IfNotNone(args.quant_type, NF4))]
      [] m \in {Q8, QI8, QU8} ->
            [NoKw EXCEPT !.per_channel = args.per_channel,
                         !.reduce_range = args.reduce_range,
                         !.weight_type = Some(weight_type_of(m, mdl))]

\* quantize.py: the branch of the mode up to the call of its quantizer;
\* get_operators(model) is called in the q8 branch only
ResolveQ ==
    /\ Q /\ pc = "resolve"
    /\ kwargs' = resolveQ(mode, model[1])
    /\ inventoried' = IF mode = Q8 THEN inventoried \cup {<<model_path, mode>>} ELSE inventoried
    /\ pc' = "quantize"
    /\ UNCHANGED <<const_vars, fs, dirs, err, model_names_or_paths, fi, mi, model, faults, log, convert_vars>>

RunQuantizer_PartialWrite(fn, kw, next) ==
    /\ UNCHANGED <<fixed_vars, dirs, model_names_or_paths, fi, mi, kwargs, convert_vars>>
    /\ \/ /\ model' = Some(Mutate(model[1], fn, kw))
          /\ log' = Append(log, Ev(fn, model_path, mode, model, kw, save_path))
          /\ pc' = next
          /\ UNCHANGED <<fs, err, faults>>
       \/ /\ Raise("UnsupportedTopologyError")
          /\ fs' = Written(fs, save_path, model[1])
          /\ log' = Append(log, Ev("quantizer_failed", model_path, mode, model, kw, save_path))
          /\ UNCHANGED model
\* a quantizer runs on the in-memory model: it mutates it, or raises
RunQuantizer(fn, kw, next) ==
    /\ UNCHANGED <<fixed_vars, fs, dirs, model_names_or_paths, fi, mi, kwargs, convert_vars>>
    /\ \/ /\ model' = Some(Mutate(model[1], fn, kw))
          /\ log' = Append(log, Ev(fn, model_path, mode, model, kw, save_path))
          /\ pc' = next
          /\ UNCHANGED <<err, faults>>
       \/ /\ Raise("UnsupportedTopologyError")
          /\ log' = Append(log, Ev("quantizer_failed", model_path, mode, model, kw, save_path))
          /\ UNCHANGED model

quantize_fp16_kwargs_NoKeep(m) ==
    [NoKw EXCEPT !.disable_shape_infer = Some(Oversized(m))]
\* quantize.py quantize_fp16: the arguments of float16.convert_float_to_float16
quantize_fp16_kwargs(m) ==
    [NoKw EXCEPT !.keep_io_types = Some(TRUE),
                 !.disable_shape_infer = Some(Oversized(m))]

\* quantize.py quantize_q8: ONNXQuantizer(...).quantize_model()
quantize_q8 ==
    /\ Q /\ pc = "quantize" /\ mode \in {Q8, QI8, QU8}
    /\ RunQuantizer("quantize_q8", kwargs, "save")

quantize_q4_SavesAlways ==
    /\ Q /\ pc = "quantize" /\ mode \in {Q4, Q4F16}
    /\ UNCHANGED <<fixed_vars, dirs, model_names_or_paths, fi, mi, kwargs, convert_vars, err, faults>>
    /\ model' = Some(Mutate(model[1], "quantize_q4", kwargs))
    /\ IF mode = Q4F16
         THEN /\ fs' = Written(fs, save_path, Mutate(model[1], "quantize_q4", kwargs))
              /\ log' = log \o << Ev("quantize_q4", model_path, mode, model, kwargs, save_path),
                                 Ev("save", model_path, mode,
                                    Some(Mutate(model[1], "quantize_q4", kwargs)), kwargs, save_path) >>
              /\ pc' = "fp16"
         ELSE /\ fs' = fs
              /\ log' = Append(log, Ev("quantize_q4", model_path, mode, model, kwargs, save_path))
              /\ pc' = "save"
\* quantize.py quantize_q4: MatMul4BitsQuantizer(...).process(); saved only when save_path is given
quantize_q4 ==
    /\ Q /\ pc = "quantize" /\ mode \in {Q4, Q4F16}
    /\ RunQuantizer("quantize_q4", kwargs, IF mode = Q4F16 THEN "fp16" ELSE "save")

\* quantize.py quantize_bnb4: MatMulBnb4Quantizer(...).process()
quantize_bnb4 ==
    /\ Q /\ pc = "quantize" /\ mode = BNB4
    /\ RunQuantizer("quantize_bnb4", kwargs, "save")

\* quantize.py quantize_fp16: convert_float_to_float16 and the topological sort
quantize_fp16 ==
    /\ Q
    /\ \/ pc = "quantize" /\ mode = FP16
       \/ pc = "fp16" /\ mode = Q4F16
    /\ RunQuantizer("quantize_fp16", quantize_fp16_kwargs(model[1]), "save")

NextJobQ_ModeMajor ==
    IF fi < Len(model_names_or_paths)
      THEN fi' = fi + 1 /\ mi' = mi /\ pc' = "load"
      ELSE IF mi < Len(args.modes)
        THEN fi' = 1 /\ mi' = mi + 1 /\ pc' = "load"
        ELSE mi' = mi /\ fi' = fi /\ pc' = "done"
\* quantize.py: the end of one pass of the two loops
NextJobQ ==
    IF mi < Len(args.modes)
      THEN mi' = mi + 1 /\ fi' = fi /\ pc' = "load"
      ELSE IF fi < Len(model_names_or_paths)
        THEN mi' = 1 /\ fi' = fi + 1 /\ pc' = "load"
        ELSE mi' = mi /\ fi' = fi /\ pc' = "done"

\* check_and_save_model(model, save_path), the last statement of every quantize_* function
check_and_save_model ==
    /\ Q /\ pc = "save"
    /\ UNCHANGED <<fixed_vars, dirs, model_names_or_paths, kwargs, convert_vars>>
    /\ \/ /\ fs' = Written(fs, save_path, model[1])
          /\ log' = Append(log, Ev("save", model_path, mode, model, kwargs, save_path))
          /\ UNCHANGED model
          /\ NextJobQ
          /\ UNCHANGED <<err, faults>>
       \/ /\ Raise("PersistenceError")
          /\ log' = Append(log, Ev("save_failed", model_path, mode, model, kwargs, save_path))
          /\ UNCHANGED <<fs, model, fi, mi>>

NextQ ==
    \/ ValidateQ
    \/ LoadQ
    \/ ResolveQ
    \/ quantize_q8
    \/ quantize_q4
    \/ quantize_bnb4
    \/ quantize_fp16
    \/ check_and_save_model

(***************************************************************************)
(* scripts/convert.py: the quantization step of main() and quantize(mode,  *)
(* model_names_or_paths, **quantize_config).  main() runs quantize once    *)
(* per mode, inside a try block: an exception raised anywhere in quantize  *)
(* ends that call, is printed, and main() goes on with the next mode.      *)
(***************************************************************************)
C == prog = "convert.py"

\* convert.py: NO_PER_CHANNEL_REDUCE_RANGE_MODELS
NO_PER_CHANNEL_REDUCE_RANGE_MODELS ==
    { "codegen", "gpt2", "gpt_bigcode", "gptj", "gpt-neo", "gpt-neox", "mpt", "bloom",
      "llama", "gemma", "opt", "mistral", "falcon", "phi", "phi3", "qwen2", "stablelm",
      "starcoder2", "openelm", "whisper", "vision-encoder-decoder", "owlv2", "wavlm",
      "wav2vec2", "unispeech", "unispeech-sat" }

\* convert.py: [x.value for x in QuantMode]; this QuantMode has no q4f16
ConvertQuantModes == <<FP16, Q8, QI8, QU8, Q4, BNB4>>

\* convert.py main: the modes to run
quantize_modes ==
    IF IsNone(args.quantize_mode) THEN ConvertQuantModes ELSE <<args.quantize_mode[1]>>

\* convert.py main: output_model_folder and its 'onnx' subfolder
output_model_folder == args.input_folder
onnx_folder == "in/onnx"

main_optional_FamilyFirst(user, model_type) ==
    IF model_type \in NO_PER_CHANNEL_REDUCE_RANGE_MODELS THEN Some(FALSE) ELSE user
\* convert.py main: the per_channel or reduce_range entry of quantize_config;
\* None when main() sets no entry
main_optional(user, model_type) ==
    IF ~IsNone(user) THEN user
    ELSE IF model_type \in NO_PER_CHANNEL_REDUCE_RANGE_MODELS THEN Some(FALSE)
    ELSE None

\* convert.py main: quantize_config, the keyword arguments of quantize()
main_quantize_config ==
    [ per_channel |-> main_optional(args.per_channel, args.model_type),
      reduce_range |-> main_optional(args.reduce_range, args.model_type),
      block_size |-> args.block_size,
      quant_type |-> args.quant_type,
      is_symmetric |-> args.is_symmetric,
      accuracy_level |-> args.accuracy_level ]

\* convert.py quantize: the parameters per_channel and reduce_range default to True
param_per_channel == IfNotNone(main_quantize_config.per_channel, TRUE)
param_reduce_range == IfNotNone(main_quantize_config.reduce_range, TRUE)

c_mode == quantize_modes[mi]
c_model == model_names_or_paths[fi]

\* convert.py quantize: save_path, beside the first input
c_save_path_of(paths, path, m) ==
    Join(Dirname(paths[1]),
         SplitextRoot(Basename(path)) \o <<"_">>
            \o (IF m = Q8 THEN S_quantized ELSE ModeValue(m)) \o S_onnx)

c_save_path == c_save_path_of(model_names_or_paths, c_model, c_mode)

RECURSIVE c_traverse_graph(_)
\* convert.py get_operators
c_traverse_graph(graph) ==
    UNION { {graph[k].op_type} \cup
            UNION { IF a.type = "GRAPH" THEN c_traverse_graph(a.g) ELSE {}
                    : a \in Range(graph[k].attribute) }
          : k \in DOMAIN graph }

c_get_operators(m) == c_traverse_graph(GraphOf(m.doc))

\* convert.py quantize: the weight type of the three 8-bit modes
c_weight_type_of(m, mdl) ==
    IF m = Q8
      THEN (IF "Conv" \in c_get_operators(mdl) THEN "QUInt8" ELSE "QInt8")
      ELSE IF m = QI8 THEN "QInt8" ELSE "QUInt8"

\* convert.py quantize: quantize_kwargs of mode m, and the weight type of the 8-bit modes
resolveC(m, mdl) ==
    CASE m = FP16 -> NoKw
      [] m = Q4 ->
            [NoKw EXCEPT !.block_size = Some(IfNotNone(main_quantize_config.block_size, 32)),
                         !.is_symmetric = Some(main_quantize_config.is_symmetric),
                         !.accuracy_level = main_quantize_config.accuracy_level]
      [] m = BNB4 ->
            [NoKw EXCEPT !.block_size = Some(IfNotNone(main_quantize_config.block_size, 64)),
                         !.quant_type = Some(IfNotNone(main_quantize_config.quant_type, NF4))]
      [] m \in {Q8, QI8, QU8} ->
            [NoKw EXCEPT !.per_channel = Some(param_per_channel),
                         !.reduce_range = Some(param_reduce_range),
                         !.weight_type = Some(c_weight_type_of(m, mdl))]

\* the keys quantize_kwargs holds in mode m
kwargs_keys(m) ==
    CASE m = FP16 -> {}
      [] m = Q4 -> {"block_size", "is_symmetric", "accuracy_level"}
      [] m = BNB4 -> {"block_size", "quant_type"}
      [] m \in {Q8, QI8, QU8} -> {"per_channel", "reduce_range"}

\* quantize_config = {}: its keys, their values, and per_model_config as the
\* sequence of its entries in insertion order (a dict keeps that order, and
\* json.dump writes it)
EmptyConfig == [keys |-> {}, v |-> NoKw, per_model_config |-> <<>>]

\* d[key] = value on a dict kept as a sequence of entries: an existing key
\* keeps its place, a new one comes last
DictSet(d, stem, entry) ==
    IF \E k \in DOMAIN d : d[k].stem = stem
      THEN [ k \in DOMAIN d |-> IF d[k].stem = stem THEN entry ELSE d[k] ]
      ELSE Append(d, entry)

\* convert.py main, lines 680-682: the exception is caught and printed, the next mode follows
ExceptC(e) ==
    /\ faults < MaxFaults
    /\ faults' = faults + 1
    /\ err' = e
    /\ stdout' = Append(stdout, [mode |-> c_mode, msg |-> e])
    /\ mi' = mi + 1
    /\ pc' = "c_mode"

\* convert.py main: the head of the loop over the modes; lists the folder and
\* enters quantize(), or writes quantize_config.json once the modes are done
ListModelsC ==
    /\ C /\ pc \in {"start", "c_mode"}
    /\ UNCHANGED <<fixed_vars, dirs, kwargs, final_quantize_configs, log>>
    /\ IF mi > Len(quantize_modes)
         THEN /\ fs' = Written(fs, Join(output_model_folder, <<"quantize_config.json">>),
                               final_quantize_configs)
              /\ pc' = "c_step3"
              /\ UNCHANGED <<err, model_names_or_paths, fi, mi, model, faults,
                             quantize_config, outputs, stdout>>
         ELSE   LET names == Listdir(output_model_folder)
                    paths == [ k \in DOMAIN SelectSeq(names, IsOnnx) |->
                                 Join(output_model_folder, SelectSeq(names, IsOnnx)[k]) ]
                IN  /\ model_names_or_paths' = paths
                    /\ quantize_config' = EmptyConfig
                    /\ outputs' = <<>>
                    /\ fi' = 1
                    /\ UNCHANGED <<fs, model>>
                    /\ IF paths = <<>>
                         THEN \* model_names_or_paths[0]: IndexError, caught by main()
                              /\ err' = "IndexError"
                              /\ stdout' = Append(stdout, [mode |-> c_mode, msg |-> "IndexError"])
                              /\ mi' = mi + 1
                              /\ pc' = "c_mode"
                              /\ UNCHANGED faults
                         ELSE /\ pc' = "c_load"
                              /\ UNCHANGED <<err, mi, faults, stdout>>

\* convert.py quantize: loaded_model = onnx.load_model(model)
LoadC ==
    /\ C /\ pc = "c_load"
    /\ UNCHANGED <<fixed_vars, fs, dirs, model_names_or_paths, fi, kwargs,
                   quantize_config, outputs, final_quantize_configs>>
    /\ \/ /\ Exists(c_model)
          /\ model' = Some(FileAt(c_model).data)
          /\ log' = Append(log, Ev("load", c_model, c_mode, Some(FileAt(c_model).data), NoKw, c_save_path))
          /\ pc' = "c_resolve"
          /\ UNCHANGED <<err, faults, mi, stdout>>
       \/ /\ ExceptC("LoadError")
          /\ log' = Append(log, Ev("load_failed", c_model, c_mode, None, NoKw, c_save_path))
          /\ UNCHANGED model

ResolveC_InventoryAlways ==
    /\ C /\ pc = "c_resolve"
    /\ kwargs' = resolveC(c_mode, model[1])
    /\ inventoried' = inventoried \cup {<<c_model, c_mode>>}
    /\ pc' = IF c_mode = FP16 THEN "c_fp16" ELSE "c_quantize"
    /\ UNCHANGED <<const_vars, fs, dirs, err, model_names_or_paths, fi, mi, model, faults,
                   log, convert_vars>>
\* convert.py quantize: quantize_kwargs of the mode; op_types =
\* get_operators(loaded_model) is computed in each of the three 8-bit modes
ResolveC ==
    /\ C /\ pc = "c_resolve"
    /\ kwargs' = resolveC(c_mode, model[1])
    /\ inventoried' = IF c_mode \in {Q8, QI8, QU8}
                        THEN inventoried \cup {<<c_model, c_mode>>}
                        ELSE inventoried
    /\ pc' = IF c_mode = FP16 THEN "c_fp16" ELSE "c_quantize"
    /\ UNCHANGED <<const_vars, fs, dirs, err, model_names_or_paths, fi, mi, model, faults,
                   log, convert_vars>>

\* convert.py quantize: quantize_dynamic, MatMul4BitsQuantizer.process, MatMulBnb4Quantizer.process
QuantizeC ==
    /\ C /\ pc = "c_quantize"
    /\ UNCHANGED <<fixed_vars, fs, dirs, model_names_or_paths, fi, kwargs,
                   quantize_config, outputs, final_quantize_configs>>
    /\ LET fn == CASE c_mode \in {Q8, QI8, QU8} -> "quantize_dynamic"
                   [] c_mode = Q4 -> "MatMul4BitsQuantizer"
                   [] c_mode = BNB4 -> "MatMulBnb4Quantizer"
       IN \/ /\ model' = Some(Mutate(model[1], fn, kwargs))
             /\ log' = Append(log, Ev(fn, c_model, c_mode, model, kwargs, c_save_path))
             /\ pc' = "c_save"
             /\ UNCHANGED <<err, faults, mi, stdout>>
          \/ /\ ExceptC("UnsupportedTopologyError")
             /\ log' = Append(log, Ev("quantizer_failed", c_model, c_mode, model, kwargs, c_save_path))
             /\ UNCHANGED model

FileDoneC_Requested(new_outputs) ==
    /\ quantize_config' =
         [ keys |-> quantize_config.keys \cup kwargs_keys(c_mode),
           v |-> [ k \in DOMAIN NoKw |->
                     IF k \in kwargs_keys(c_mode)
                       THEN (IF k = "block_size" THEN main_quantize_config.block_size
                             ELSE kwargs[k])
                       ELSE quantize_config.v[k] ],
           per_model_config |->
             IF c_mode \in {Q8, QI8, QU8}
               THEN DictSet(quantize_config.per_model_config,
                            SplitextRoot(Basename(c_model)),
                            [ stem |-> SplitextRoot(Basename(c_model)),
                              op_types |-> c_get_operators(FileAt(c_model).data),
                              weight_type |-> kwargs.weight_type[1] ])
               ELSE quantize_config.per_model_config ]
    /\ outputs' = outputs \o new_outputs
    /\ IF fi < Len(model_names_or_paths)
         THEN fi' = fi + 1 /\ pc' = "c_load"
         ELSE fi' = fi /\ pc' = "c_return"
\* convert.py quantize, lines 337-343 and 404-405: what one finished file adds to
\* quantize_config and outputs, and the step to the next file or the return to main()
FileDoneC(new_outputs) ==
    /\ quantize_config' =
         [ keys |-> quantize_config.keys \cup kwargs_keys(c_mode),
           v |-> [ k \in DOMAIN NoKw |->
                     IF k \in kwargs_keys(c_mode) THEN kwargs[k] ELSE quantize_config.v[k] ],
           per_model_config |->
             IF c_mode \in {Q8, QI8, QU8}
               THEN DictSet(quantize_config.per_model_config,
                            SplitextRoot(Basename(c_model)),
                            [ stem |-> SplitextRoot(Basename(c_model)),
                              op_types |-> c_get_operators(FileAt(c_model).data),
                              weight_type |-> kwargs.weight_type[1] ])
               ELSE quantize_config.per_model_config ]
    /\ outputs' = outputs \o new_outputs
    /\ IF fi < Len(model_names_or_paths)
         THEN fi' = fi + 1 /\ pc' = "c_load"
         ELSE fi' = fi /\ pc' = "c_return"

\* convert.py quantize: the model is written to save_path
SaveC ==
    /\ C /\ pc = "c_save"
    /\ UNCHANGED <<fixed_vars, dirs, model_names_or_paths, kwargs, final_quantize_configs>>
    /\ \/ /\ fs' = Written(fs, c_save_path, model[1])
          /\ log' = Append(log, Ev("save", c_model, c_mode, model, kwargs, c_save_path))
          /\ FileDoneC(<<c_save_path>>)
          /\ UNCHANGED <<err, faults, mi, stdout, model>>
       \/ /\ ExceptC("PersistenceError")
          /\ log' = Append(log, Ev("save_failed", c_model, c_mode, model, kwargs, c_save_path))
          /\ UNCHANGED <<fs, model, fi, quantize_config, outputs>>

c_data_path == Join(c_save_path.dir, c_save_path.name \o S_data)

\* convert.py quantize: the arguments of convert_float_to_float16 in the try
\* block and in the except block
c_fp16_kwargs == [NoKw EXCEPT !.keep_io_types = Some(TRUE)]
c_fp16_except_kwargs ==
    [NoKw EXCEPT !.keep_io_types = Some(TRUE), !.disable_shape_infer = Some(TRUE)]

Fp16TryC_NoFallback ==
    /\ C /\ pc = "c_fp16"
    /\ UNCHANGED <<fixed_vars, dirs, model_names_or_paths, kwargs, final_quantize_configs>>
    /\ \/ /\ ~Oversized(model[1])
          /\ fs' = Written(fs, c_save_path, Mutate(model[1], "convert_float_to_float16", c_fp16_kwargs))
          /\ log' = log \o << Ev("convert_float_to_float16", c_model, c_mode, model, c_fp16_kwargs, c_save_path),
                             Ev("save", c_model, c_mode,
                                Some(Mutate(model[1], "convert_float_to_float16", c_fp16_kwargs)),
                                kwargs, c_save_path) >>
          /\ FileDoneC(<<c_save_path>>)
          /\ model' = Some(Mutate(model[1], "convert_float_to_float16", c_fp16_kwargs))
          /\ UNCHANGED <<err, faults, mi, stdout>>
       \/ /\ ExceptC("SizeLimitError")
          /\ log' = Append(log, Ev("try_failed", c_model, c_mode, model, kwargs, c_save_path))
          /\ UNCHANGED <<fs, model, fi, quantize_config, outputs>>
\* convert.py quantize, lines 378-383: convert_float_to_float16 and onnx.save in the try block
Fp16TryC ==
    /\ C /\ pc = "c_fp16"
    /\ UNCHANGED <<fixed_vars, dirs, model_names_or_paths, kwargs, final_quantize_configs,
                   err, mi, stdout>>
    /\ \/ \* both succeed: the document is below the ceiling (shape inference and
          \* the serialization of a larger one raise)
          /\ ~Oversized(model[1])
          /\ fs' = Written(fs, c_save_path, Mutate(model[1], "convert_float_to_float16", c_fp16_kwargs))
          /\ log' = log \o << Ev("convert_float_to_float16", c_model, c_mode, model, c_fp16_kwargs, c_save_path),
                             Ev("save", c_model, c_mode,
                                Some(Mutate(model[1], "convert_float_to_float16", c_fp16_kwargs)),
                                kwargs, c_save_path) >>
          /\ FileDoneC(<<c_save_path>>)
          /\ model' = Some(Mutate(model[1], "convert_float_to_float16", c_fp16_kwargs))
          /\ UNCHANGED faults
       \/ \* the conversion raises
          /\ UNCHANGED faults
          /\ pc' = "c_fp16_except"
          /\ log' = Append(log, Ev("try_failed", c_model, c_mode, model, kwargs, c_save_path))
          /\ UNCHANGED <<fs, model, fi, quantize_config, outputs>>
       \/ \* the conversion succeeds (shape inference serializes the model, so
          \* it is below the ceiling) and onnx.save raises
          /\ ~Oversized(model[1])
          /\ UNCHANGED faults
          /\ pc' = "c_fp16_except"
          /\ model' = Some(Mutate(model[1], "convert_float_to_float16", c_fp16_kwargs))
          /\ log' = log \o << Ev("convert_float_to_float16", c_model, c_mode, model, c_fp16_kwargs, c_save_path),
                             Ev("try_failed", c_model, c_mode,
                                Some(Mutate(model[1], "convert_float_to_float16", c_fp16_kwargs)),
                                kwargs, c_save_path) >>
          /\ UNCHANGED <<fs, fi, quantize_config, outputs>>

\* convert.py quantize, lines 384-399: the except block converts again without shape
\* inference and saves with the weights in a companion file
Fp16ExceptC ==
    /\ C /\ pc = "c_fp16_except"
    /\ UNCHANGED <<fixed_vars, dirs, model_names_or_paths, kwargs, final_quantize_configs>>
    /\ \/ /\ fs' = Written(Written(fs, c_save_path,
                                   Mutate(model[1], "convert_float_to_float16_external", c_fp16_except_kwargs)),
                           c_data_path, Mutate(model[1], "external_data", kwargs))
          /\ log' = log \o << Ev("convert_float_to_float16_external", c_model, c_mode, model, c_fp16_except_kwargs, c_save_path),
                             Ev("save", c_model, c_mode,
                                Some(Mutate(model[1], "convert_float_to_float16_external", c_fp16_except_kwargs)),
                                kwargs, c_save_path) >>
          /\ FileDoneC(<<c_data_path, c_save_path>>)
          /\ model' = Some(Mutate(model[1], "convert_float_to_float16_external", c_fp16_except_kwargs))
          /\ UNCHANGED <<err, faults, mi, stdout>>
       \/ \* no tensor reaches size_threshold: onnx.save writes no companion file,
          \* and line 399 appends its path to the outputs all the same
          \* (counted: main()'s move of that path will raise)
          /\ ~Oversized(model[1])
          /\ faults < MaxFaults
          /\ faults' = faults + 1
          /\ fs' = Written(fs, c_save_path,
                           Mutate(model[1], "convert_float_to_float16_external", c_fp16_except_kwargs))
          /\ log' = log \o << Ev("convert_float_to_float16_external", c_model, c_mode, model, c_fp16_except_kwargs, c_save_path),
                             Ev("save", c_model, c_mode,
                                Some(Mutate(model[1], "convert_float_to_float16_external", c_fp16_except_kwargs)),
                                kwargs, c_save_path) >>
          /\ FileDoneC(<<c_data_path, c_save_path>>)
          /\ model' = Some(Mutate(model[1], "convert_float_to_float16_external", c_fp16_except_kwargs))
          /\ UNCHANGED <<err, mi, stdout>>
       \/ /\ ExceptC("PersistenceError")
          /\ log' = Append(log, Ev("save_failed", c_model, c_mode, model, kwargs, c_save_path))
          /\ UNCHANGED <<fs, model, fi, quantize_config, outputs>>

RECURSIVE MoveAll(_, _, _)
\* shutil.move of each path of a sequence into folder `to`, in order; the
\* move of a path that does not exist raises, and the later ones stay
MoveAll(files, paths, to) ==
    IF paths = <<>> THEN files
    ELSE LET p == Head(paths)
         IN  IF ~\E g \in files : g.dir = p.dir /\ g.name = p.name
               THEN files
               ELSE LET f == CHOOSE g \in files : g.dir = p.dir /\ g.name = p.name
                    IN  MoveAll(Written(files \ {f}, Join(to, p.name), f.data), Tail(paths), to)

\* convert.py main, lines 674-679: quantize() returned; keep its configuration
\* and move its outputs into the onnx folder
ReturnC ==
    /\ C /\ pc = "c_return"
    /\ final_quantize_configs' =
         SelectSeq(final_quantize_configs, LAMBDA e : e.mode # c_mode)
            \o <<[mode |-> c_mode, config |-> quantize_config]>>
    /\ fs' = MoveAll(fs, outputs, onnx_folder)
    /\ IF \A k \in DOMAIN outputs : Exists(outputs[k])
         THEN UNCHANGED <<err, stdout>>
         ELSE \* shutil.move raises inside the try block of main()
              /\ err' = "FileNotFoundError"
              /\ stdout' = Append(stdout, [mode |-> c_mode, msg |-> "FileNotFoundError"])
    /\ mi' = mi + 1
    /\ pc' = "c_mode"
    /\ UNCHANGED <<fixed_vars, dirs, model_names_or_paths, fi, model, kwargs, faults,
                   quantize_config, outputs, log>>

\* convert.py main, Step 3: every .onnx and .onnx_data file left in the folder moves to onnx/
Step3C ==
    /\ C /\ pc = "c_step3"
    /\ LET names == SelectSeq(Listdir(output_model_folder),
                              LAMBDA n : EndsWith(n, S_onnx) \/ EndsWith(n, S_onnx \o S_data))
       IN  fs' = MoveAll(fs, [ k \in DOMAIN names |-> Join(output_model_folder, names[k]) ],
                         onnx_folder)
    /\ pc' = "done"
    /\ UNCHANGED <<fixed_vars, dirs, err, model_names_or_paths, fi, mi, model, kwargs, faults,
                   log, convert_vars>>

NextC ==
    \/ ListModelsC
    \/ LoadC
    \/ ResolveC
    \/ QuantizeC
    \/ SaveC
    \/ Fp16TryC
    \/ Fp16ExceptC
    \/ ReturnC
    \/ Step3C

ModelTypes == {"gpt2", "bert"}

ConversionArguments ==
    { [ modes |-> <<>>,
        quantize_mode |-> qm,
        model_type |-> mt,
        per_channel |-> o.per_channel,
        reduce_range |-> o.reduce_range,
        block_size |-> o.block_size,
        is_symmetric |-> TRUE,
        accuracy_level |-> None,
        quant_type |-> o.quant_type,
        input_folder |-> "in",
        output_folder |-> "in" ]
      : qm \in {None} \cup { Some(m) : m \in Range(ConvertQuantModes) },
        mt \in ModelTypes, o \in UserOptions }

InitC ==
    /\ prog = "convert.py"
    /\ args \in ConversionArguments
    /\ dirs = {"in", onnx_folder}
    /\ fs \in InputFolders

(***************************************************************************)
(* get_operators(model) on its own, step by step (quantize.py lines        *)
(* 114-125; convert.py lines 236-248 are the same function): `operators`   *)
(* is a new set in every call, traverse_graph visits the nodes of a graph  *)
(* in order and, at each node, descends into the graph of every attribute  *)
(* of type GRAPH before it goes on to the next node.                       *)
(***************************************************************************)
\* the graphs without subgraphs: at most MaxNodes nodes
FlatGraphs ==
    UNION { [1..n -> {Leaf("Conv"), Leaf("Relu")}] : n \in 0..MaxNodes }

\* the graphs get_operators is called with: without subgraphs, or nested up to MaxNest deep
GraphPool == FlatGraphs \cup { Nest(d, g) : d \in 1..MaxNest, g \in FlatGraphs }

\* the graphs of the attributes of type GRAPH of a node, in attribute order
Subgraphs(node) ==
    LET graph_attrs == SelectSeq(node.attribute, LAMBDA a : a.type = "GRAPH")
    IN  [ k \in DOMAIN graph_attrs |-> graph_attrs[k].g ]

CallG_NoReset ==
    /\ prog = "get_operators" /\ pc = "g_idle"
    /\ Len(returned) < Len(graph_inputs)
    /\ operators' = operators
    /\ walk' = << graph_inputs[Len(returned) + 1] >>
    /\ pc' = "g_walk"
    /\ UNCHANGED <<prog, args, initial, graph_inputs, returned, script_vars>>
\* operators = set(); traverse_graph(model.graph)
CallG ==
    /\ prog = "get_operators" /\ pc = "g_idle"
    /\ Len(returned) < Len(graph_inputs)
    /\ operators' = {}
    /\ walk' = << graph_inputs[Len(returned) + 1] >>
    /\ pc' = "g_walk"
    /\ UNCHANGED <<prog, args, initial, graph_inputs, returned, script_vars>>

VisitG_TopOnly ==
    /\ prog = "get_operators" /\ pc = "g_walk" /\ walk # <<>>
    /\ IF Head(walk) = <<>>
         THEN walk' = Tail(walk) /\ operators' = operators
         ELSE /\ operators' = operators \cup {Head(Head(walk)).op_type}
              /\ walk' = <<Tail(Head(walk))>> \o Tail(walk)
    /\ UNCHANGED <<prog, args, initial, pc, graph_inputs, returned, script_vars>>
\* one pass of `for node in graph.node`: operators.add(node.op_type) and the
\* calls traverse_graph(attr.g); a loop that has no node left returns
VisitG ==
    /\ prog = "get_operators" /\ pc = "g_walk" /\ walk # <<>>
    /\ IF Head(walk) = <<>>
         THEN walk' = Tail(walk) /\ operators' = operators
         ELSE /\ operators' = operators \cup {Head(Head(walk)).op_type}
              /\ walk' = Subgraphs(Head(Head(walk))) \o <<Tail(Head(walk))>> \o Tail(walk)
    /\ UNCHANGED <<prog, args, initial, pc, graph_inputs, returned, script_vars>>

\* return operators
ReturnG ==
    /\ prog = "get_operators" /\ pc = "g_walk" /\ walk = <<>>
    /\ returned' = Append(returned, [graph |-> graph_inputs[Len(returned) + 1],
                                     operators |-> operators])
    /\ pc' = "g_idle"
    /\ UNCHANGED <<prog, args, initial, graph_inputs, operators, walk, script_vars>>

\* two calls in a row, on any two graphs of the pool
InitG ==
    /\ prog = "get_operators"
    /\ graph_inputs \in { <<g, h>> : g \in GraphPool, h \in GraphPool }
    /\ operators = {}
    /\ walk = <<>>
    /\ returned = <<>>
    /\ pc = "g_idle"
    /\ args = [modes |-> <<>>]
    /\ fs = {} /\ dirs = {}
    /\ initial = [fs |-> {}, dirs |-> {}]
    /\ err = ""
    /\ model_names_or_paths = <<>>
    /\ fi = 1 /\ mi = 1
    /\ model = None
    /\ kwargs = NoKw
    /\ faults = 0
    /\ quantize_config = EmptyConfig
    /\ outputs = <<>>
    /\ final_quantize_configs = <<>>
    /\ stdout = <<>>
    /\ log = <<>>
    /\ inventoried = {}

NextG ==
    \/ CallG
    \/ VisitG
    \/ ReturnG

SpecG == InitG /\ [][NextG]_vars

(***************************************************************************)
(* The specification.                                                      *)
(***************************************************************************)
InitQ ==
    /\ prog = "quantize.py"
    /\ args \in QuantizationArguments
    /\ \/ dirs = {"in"} /\ fs \in InputFolders
       \/ dirs = {} /\ fs = {}

Init ==
    /\ (InitQ \/ InitC)
    /\ graph_inputs = <<>>
    /\ operators = {}
    /\ walk = <<>>
    /\ returned = <<>>
    /\ quantize_config = EmptyConfig
    /\ outputs = <<>>
    /\ final_quantize_configs = <<>>
    /\ stdout = <<>>
    /\ initial = [fs |-> fs, dirs |-> dirs]
    /\ pc = "start"
    /\ err = ""
    /\ model_names_or_paths = <<>>
    /\ fi = 1
    /\ mi = 1
    /\ model = None
    /\ kwargs = NoKw
    /\ faults = 0
    /\ log = <<>>
    /\ inventoried = {}

Next ==
    \/ NextQ
    \/ NextC

Spec == Init /\ [][Next]_vars

(***************************************************************************)
(* What the history says about the jobs of a run.                          *)
(***************************************************************************)
Terminated == pc \in {"done", "raised"}

\* the modes the run was asked for
ModesOfRun == IF Q THEN args.modes ELSE quantize_modes

\* the documents of the input folder the run started with that end in .onnx
EligibleInputs ==
    { Join(f.dir, f.name) : f \in { g \in initial.fs : g.dir = "in" /\ EndsWith(g.name, S_onnx) } }

\* the batch: every (file, mode) combination
Batch == { <<p, m>> : p \in EligibleInputs, m \in Range(ModesOfRun) }

Events(kinds) == { k \in DOMAIN log : log[k].ev \in kinds }
OfJob(k, job) == log[k].src = job[1] /\ log[k].mode = job[2]

Attempted(job) == \E k \in Events({"load", "load_failed"}) : OfJob(k, job)
Persisted(job) == \E k \in Events({"save"}) : OfJob(k, job)
Raised(job) == \E k \in Events({"load_failed", "quantizer_failed", "save_failed"}) : OfJob(k, job)

QuantizerCalls ==
    {"quantize_q8", "quantize_q4", "quantize_bnb4", "quantize_fp16", "quantize_dynamic",
     "MatMul4BitsQuantizer", "MatMulBnb4Quantizer", "convert_float_to_float16",
     "convert_float_to_float16_external"}
EightBitCalls == {"quantize_q8", "quantize_dynamic"}

(***************************************************************************)
(* C1                                                                      *)
(***************************************************************************)
\* C1: no job failure aborts the batch: when the run has ended, every
\* (file, mode) combination of the batch has been attempted, whichever jobs failed.
C1_EveryJobAttempted ==
    Terminated => \A job \in Batch : Attempted(job)

(***************************************************************************)
(* C2                                                                      *)
(***************************************************************************)
\* what the run reports of a job that raised: quantize.py ends with the
\* exception of the job at hand; convert.py prints the mode and the message
FailedRecorded(job) ==
    \/ Q /\ pc = "raised" /\ Raised(job)
    \/ C /\ \E k \in DOMAIN stdout : stdout[k].mode = job[2] /\ Raised(job)

\* what the run reports of a job that was persisted: quantize.py leaves the
\* written file; convert.py keeps the configuration of the mode
SuccessRecorded(job) ==
    \/ Q /\ Persisted(job)
    \/ C /\ Persisted(job) /\ \E k \in DOMAIN final_quantize_configs :
                                 final_quantize_configs[k].mode = job[2]

\* C2: when the run has ended, the report holds exactly one outcome for every
\* job of the batch: Failed for a job that raised, success for a job that was persisted.
C2_OneOutcomePerJob ==
    Terminated =>
        \A job \in Batch :
            /\ Raised(job) => FailedRecorded(job)
            /\ Persisted(job) => SuccessRecorded(job)
            /\ FailedRecorded(job) \/ SuccessRecorded(job)
            /\ ~(FailedRecorded(job) /\ SuccessRecorded(job))

(***************************************************************************)
(* C3                                                                      *)
(***************************************************************************)
\* the in-memory model a step of the history leaves behind
After(e) ==
    IF e.ev \in QuantizerCalls THEN Some(Mutate(e.model_in[1], e.ev, e.kw)) ELSE e.model_in

\* C3: every quantizer call works on the graph its own job decoded from its
\* source file (changed only by the earlier quantizer calls of that same job),
\* the decoded graph is the content of the source file when the job starts,
\* and no job writes to its own source file.
C3_FreshGraphPerJob ==
    /\ \A k \in Events(QuantizerCalls) :
          /\ k > 1
          /\ log[k - 1].ev \in QuantizerCalls \cup {"load", "try_failed"}
          /\ log[k - 1].src = log[k].src /\ log[k - 1].mode = log[k].mode
          /\ log[k].model_in = After(log[k - 1])
    /\ (log # <<>> /\ log[Len(log)].ev = "load" /\ pc \in {"resolve", "c_resolve"}) =>
          /\ Exists(log[Len(log)].src)
          /\ Some(FileAt(log[Len(log)].src).data) = log[Len(log)].model_in
          /\ model = log[Len(log)].model_in
    /\ \A k \in Events({"save"}) : log[k].out # log[k].src

\* a second job of one file has called its quantizer after the first job mutated its graph
C3_Witness ==
    \E k, l \in Events(QuantizerCalls) :
        /\ k < l /\ log[k].src = log[l].src /\ log[k].mode # log[l].mode
        /\ log[l].model_in[1].q = <<>>

(***************************************************************************)
(* C4                                                                      *)
(***************************************************************************)
InputFolderMissing == "in" \notin initial.dirs
NoEligibleDocument == \A f \in initial.fs : ~(f.dir = "in" /\ EndsWith(f.name, S_onnx))

\* C4: if the input folder does not exist or holds no .onnx document, the run
\* raises before any job starts: nothing is loaded, no directory is made and
\* no file is written by a quantizer.
C4_FailsFast ==
    (InputFolderMissing \/ NoEligibleDocument) =>
        /\ log = <<>>
        /\ dirs = initial.dirs
        /\ \A f \in fs :
              \/ f \in initial.fs
              \/ C /\ f.name = <<"quantize_config.json">>
              \/ C /\ pc = "done" /\ \E g \in initial.fs : g.name = f.name /\ g.data = f.data
        /\ Q /\ pc # "start" => pc = "raised"
        /\ C /\ pc \in {"c_step3", "done"} =>
              \A m \in Range(quantize_modes) :
                 \E k \in DOMAIN stdout : stdout[k] = [mode |-> m, msg |-> "IndexError"]

\* the folder exists and holds only a file that is not a .onnx document; the run has raised
C4_Witness ==
    /\ Q /\ pc = "raised"
    /\ ~InputFolderMissing /\ NoEligibleDocument /\ initial.fs # {}
    /\ args.modes # <<>>

(***************************************************************************)
(* C5                                                                      *)
(***************************************************************************)
RECURSIVE NodesAtDepth(_, _)
\* the nodes of a graph found d levels of GRAPH attributes down
NodesAtDepth(graph, d) ==
    IF d = 0 THEN Range(graph)
    ELSE UNION { UNION { NodesAtDepth(a.g, d - 1)
                         : a \in { b \in Range(n.attribute) : b.type = "GRAPH" } }
                 : n \in Range(graph) }

HasConv(doc) ==
    \E d \in 0..(MaxNest + 2) : \E n \in NodesAtDepth(GraphOf(doc), d) : n.op_type = "Conv"

\* C5: in EightBit (auto) mode the 8-bit quantizer gets unsigned weights if the
\* graph holds a Conv node at any depth, signed weights if it holds none.
C5_AutoWeightType ==
    \A k \in Events(EightBitCalls) :
        log[k].mode = Q8 =>
            log[k].kw.weight_type =
                Some(IF HasConv(log[k].model_in[1].doc) THEN "QUInt8" ELSE "QInt8")

\* one run has quantized a graph whose only Conv is nested (unsigned) and a graph without Conv (signed)
C5_Witness ==
    /\ \E k \in Events(EightBitCalls) :
          /\ log[k].mode = Q8 /\ log[k].kw.weight_type = Some("QUInt8")
          /\ \A n \in NodesAtDepth(GraphOf(log[k].model_in[1].doc), 0) : n.op_type # "Conv"
    /\ \E k \in Events(EightBitCalls) :
          log[k].mode = Q8 /\ log[k].kw.weight_type = Some("QInt8")

(***************************************************************************)
(* C6                                                                      *)
(***************************************************************************)
\* C6: EightBitSignedOnly always gets signed weights and EightBitUnsignedOnly
\* always unsigned weights: two calls of the same of these modes get the same
\* weight type, whatever the operator sets of their graphs.
C6_FixedWeightType ==
    /\ \A k \in Events(EightBitCalls) :
          /\ log[k].mode = QI8 => log[k].kw.weight_type = Some("QInt8")
          /\ log[k].mode = QU8 => log[k].kw.weight_type = Some("QUInt8")
    /\ \A k, l \in Events(EightBitCalls) :
          log[k].mode = log[l].mode /\ log[k].mode \in {QI8, QU8}
             => log[k].kw.weight_type = log[l].kw.weight_type

\* the same fixed mode has run on a graph with Conv and on a graph without
C6_Witness ==
    \E k, l \in Events(EightBitCalls) :
        /\ log[k].mode = QI8 /\ log[l].mode = QI8
        /\ HasConv(log[k].model_in[1].doc) /\ ~HasConv(log[l].model_in[1].doc)

(***************************************************************************)
(* C7                                                                      *)
(***************************************************************************)
\* the suffix of each mode, as the naming convention states it
SuffixOfMode(m) ==
    CASE m = Q8 -> <<"q", "u", "a", "n", "t", "i", "z", "e", "d">>
      [] m = FP16 -> <<"f", "p", "1", "6">>
      [] m = QI8 -> <<"i", "n", "t", "8">>
      [] m = QU8 -> <<"u", "i", "n", "t", "8">>
      [] m = Q4 -> <<"q", "4">>
      [] m = Q4F16 -> <<"q", "4", "f", "1", "6">>
      [] m = BNB4 -> <<"b", "n", "b", "4">>

\* the stem of a .onnx file name: the name without its last five characters
StemOf(name) == SubSeq(name, 1, Len(name) - 5)

OutputDir == IF Q THEN args.output_folder ELSE "in"

ExpectedOutput(src, m) ==
    [dir |-> OutputDir,
     name |-> StemOf(src.name) \o <<"_">> \o SuffixOfMode(m) \o <<".", "o", "n", "n", "x">>]

\* C7: the job of a file with stem S and of mode M writes its document to
\* <output_dir>/S_<suffix(M)>.onnx; right after the write (in convert.py: until
\* main() moves the outputs of the mode) the file is there.
C7_OutputNaming ==
    /\ \A k \in Events({"save"}) : log[k].out = ExpectedOutput(log[k].src, log[k].mode)
    /\ (log # <<>> /\ log[Len(log)].ev = "save"
          /\ (C => pc \in {"c_load", "c_return"} /\ \E k \in DOMAIN outputs : outputs[k] = log[Len(log)].out)) =>
          \E f \in fs :
             /\ Join(f.dir, f.name) = ExpectedOutput(log[Len(log)].src, log[Len(log)].mode)
             /\ Some(f.data) = log[Len(log)].model_in

\* an EightBit job and a job of another mode have written their documents
C7_Witness ==
    /\ \E k \in Events({"save"}) : log[k].mode = Q8
    /\ \E k \in Events({"save"}) : log[k].mode = QU8
    /\ log[Len(log)].ev = "save"

(***************************************************************************)
(* C8                                                                      *)
(***************************************************************************)
\* C8: two jobs that differ in their file or in their mode never write to the same path.
C8_ExclusiveOutputs ==
    \A k, l \in Events({"save"}) :
        (log[k].src # log[l].src \/ log[k].mode # log[l].mode) => log[k].out # log[l].out

\* jobs of two files, one named with the other's stem and a mode suffix, and
\* jobs of two modes of one file have written
C8_Witness ==
    /\ \E k, l \in Events({"save"}) :
          /\ log[k].src.name = N_m /\ log[l].src.name = N_m_fp16
          /\ log[k].mode = log[l].mode
    /\ \E k, l \in Events({"save"}) :
          log[k].src = log[l].src /\ log[k].mode = Q8 /\ log[l].mode = QI8

(***************************************************************************)
(* C9                                                                      *)
(***************************************************************************)
\* C9: the 4-bit quantizers get the user's block size whenever the user gave
\* one; without one FourBit and FourBitThenHalf get 32 and FourBitBnb gets 64.
C9_BlockSize ==
    \A k \in Events({"quantize_q4", "quantize_bnb4", "MatMul4BitsQuantizer", "MatMulBnb4Quantizer"}) :
        log[k].kw.block_size =
            IF args.block_size # None THEN args.block_size
            ELSE IF log[k].mode = BNB4 THEN Some(64) ELSE Some(32)

(***************************************************************************)
(* C10                                                                     *)
(***************************************************************************)
\* the hard default of per_channel and reduce_range: True in convert.py's
\* quantize(), None in the arguments of quantize.py
HardDefault == IF C THEN Some(TRUE) ELSE None

Precedence(user) ==
    IF user # None THEN user
    ELSE IF C /\ args.model_type \in NO_PER_CHANNEL_REDUCE_RANGE_MODELS THEN Some(FALSE)
    ELSE HardDefault

\* C10: per_channel and reduce_range, each on its own: the 8-bit quantizer gets
\* the user's value if there is one, else False for a model family of the list,
\* else the hard default.
C10_Precedence ==
    \A k \in Events(EightBitCalls) :
        /\ log[k].kw.per_channel = Precedence(args.per_channel)
        /\ log[k].kw.reduce_range = Precedence(args.reduce_range)

\* a family of the list: the user's True went through for one option while the
\* other, not given, became False
C10_Witness ==
    /\ C /\ args.model_type \in NO_PER_CHANNEL_REDUCE_RANGE_MODELS
    /\ args.per_channel = Some(TRUE) /\ args.reduce_range = None
    /\ \E k \in Events(EightBitCalls) :
          log[k].kw.per_channel = Some(TRUE) /\ log[k].kw.reduce_range = Some(FALSE)

(***************************************************************************)
(* C11                                                                     *)
(***************************************************************************)
SameJob(k, l) == log[k].src = log[l].src /\ log[k].mode = log[l].mode

JustSavedC ==
    /\ C /\ log # <<>> /\ log[Len(log)].ev = "save"
    /\ pc \in {"c_load", "c_return"}
    /\ \E k \in DOMAIN outputs : outputs[k] = log[Len(log)].out

CompanionOf(e) == Join(e.out.dir, ExpectedOutput(e.src, FP16).name \o <<"_", "d", "a", "t", "a">>)

\* C12: a HalfPrecision job on a graph above the ceiling leaves the primary
\* document and its companion S_fp16.onnx_data; a HalfPrecision job on a graph
\* below the ceiling leaves the primary document and no companion file; no
\* other new companion file appears.  (Stated for convert.py, whose source
\* decides it; quantize.py leaves the split to the library's save.)
C12_ExternalizationTrigger ==
    /\ (JustSavedC /\ log[Len(log)].mode = FP16) =>
          /\ Exists(log[Len(log)].out)
          /\ Oversized(log[Len(log)].model_in[1]) <=> Exists(CompanionOf(log[Len(log)]))
    /\ C => \A f \in fs :
               (f \notin initial.fs /\ f.dir = "in" /\ EndsWith(f.name, S_onnx \o S_data)) =>
                  \E k \in Events({"save"}) :
                     /\ log[k].mode = FP16
                     /\ Oversized(log[k].model_in[1])
                     /\ Join(f.dir, f.name) = CompanionOf(log[k])

(***************************************************************************)
(* C13                                                                     *)
(***************************************************************************)
\* C13: an error raised in the try block of a HalfPrecision job on a graph
\* above the ceiling (the size-limit error) is handled in quantize(): the job
\* goes on in the externalization branch, nothing is printed for it, and the
\* next step of the history is the second conversion of that job (or the
\* failure of the externalized save itself, another error).
C13_SizeLimitHandled ==
    /\ \A k \in Events({"try_failed"}) :
          Oversized(log[k].model_in[1]) =>
             /\ log[k].mode = FP16
             /\ IF k = Len(log)
                  THEN /\ pc = "c_fp16_except"
                       /\ \A j \in DOMAIN stdout : stdout[j].mode # log[k].mode
                  ELSE /\ log[k + 1].ev \in {"convert_float_to_float16_external", "save_failed"}
                       /\ SameJob(k, k + 1)
    /\ err # "SizeLimitError"
    /\ \A j \in DOMAIN stdout : stdout[j].msg # "SizeLimitError"

\* the try block failed on a graph above the ceiling, the job was persisted
\* with its companion, and main() kept the configuration of the mode
C13_Witness ==
    /\ C /\ pc = "c_mode"
    /\ \E k \in Events({"try_failed"}) :
          /\ Oversized(log[k].model_in[1])
          /\ \E l \in Events({"save"}) : l > k /\ SameJob(k, l)
    /\ \E j \in DOMAIN final_quantize_configs : final_quantize_configs[j].mode = FP16
    /\ stdout = <<>>

(***************************************************************************)
(* C14                                                                     *)
(***************************************************************************)
\* the parameters each mode hands to its quantizer, besides the weight type
ParametersOf(m) ==
    CASE m \in {Q8, QI8, QU8} -> {"per_channel", "reduce_range"}
      [] m = Q4 -> {"block_size", "is_symmetric", "accuracy_level"}
      [] m = BNB4 -> {"block_size", "quant_type"}
      [] OTHER -> {}

\* C14: the metadata of convert.py holds an entry for a mode only if every job
\* of that mode was persisted and none failed, and the entry holds exactly the
\* parameters the quantizer of that mode was called with (per model: the
\* weight type it was called with).
C14_MetadataOfPersisted ==
    C => \A j \in DOMAIN final_quantize_configs :
            LET e == final_quantize_configs[j]
            IN  /\ \E k \in Events({"save"}) : log[k].mode = e.mode
                /\ \A k \in Events({"load_failed", "quantizer_failed", "save_failed"}) :
                      log[k].mode # e.mode
                /\ \A k \in Events({"load"}) :
                      log[k].mode = e.mode =>
                         \E l \in Events({"save"}) : l > k /\ SameJob(k, l)
                /\ e.config.keys = ParametersOf(e.mode)
                /\ \A k \in Events(QuantizerCalls) :
                      log[k].mode = e.mode =>
                         /\ \A key \in e.config.keys : e.config.v[key] = log[k].kw[key]
                         /\ \A key \in ParametersOf(e.mode) : key \in e.config.keys
                /\ e.mode \in {Q8, QI8, QU8} =>
                      /\ \A k \in Events(EightBitCalls) :
                            log[k].mode = e.mode =>
                               \E n \in DOMAIN e.config.per_model_config :
                                  /\ e.config.per_model_config[n].stem = StemOf(log[k].src.name)
                                  /\ Some(e.config.per_model_config[n].weight_type)
                                        = log[k].kw.weight_type
                      /\ \A n \in DOMAIN e.config.per_model_config :
                            \E k \in Events(EightBitCalls) :
                               /\ log[k].mode = e.mode
                               /\ e.config.per_model_config[n].stem = StemOf(log[k].src.name)
                /\ e.mode \notin {Q8, QI8, QU8} => e.config.per_model_config = <<>>
                /\ \A i \in DOMAIN final_quantize_configs :
                      final_quantize_configs[i].mode = e.mode => i = j

\* the metadata was written with the entry of a 4-bit mode that ran with the
\* default block size, while another mode failed and has no entry
C14_Witness ==
    /\ C /\ pc = "done"
    /\ \E j \in DOMAIN final_quantize_configs :
          /\ final_quantize_configs[j].mode = Q4
          /\ final_quantize_configs[j].config.v.block_size = Some(32)
    /\ \E k \in Events({"quantizer_failed", "save_failed"}) :
          \A j \in DOMAIN final_quantize_configs : final_quantize_configs[j].mode # log[k].mode
    /\ \E f \in fs : f.name = <<"quantize_config.json">> /\ f.data = final_quantize_configs

(***************************************************************************)
(* C15                                                                     *)
(***************************************************************************)
\* the stems of the per-model entries of one entry of the metadata, in order
StemsOf(e) ==
    [ n \in DOMAIN e.config.per_model_config |-> e.config.per_model_config[n].stem ]

\* the place of a mode in the list of modes
PlaceOf(m) == CHOOSE k \in DOMAIN quantize_modes : quantize_modes[k] = m

\* C15: the order of the keys of the metadata depends on the set of input
\* files, modes and parameters only, not on the order of the directory
\* listing: the modes come in the order of the mode list and the per-model
\* entries in the one order a listing by name gives (here: shorter names first).
C15_MetadataKeyOrder ==
    C => /\ \A i, j \in DOMAIN final_quantize_configs :
               i < j => PlaceOf(final_quantize_configs[i].mode)
                           < PlaceOf(final_quantize_configs[j].mode)
         /\ \A j \in DOMAIN final_quantize_configs :
               \A a, b \in DOMAIN StemsOf(final_quantize_configs[j]) :
                  a < b => Len(StemsOf(final_quantize_configs[j])[a])
                              <= Len(StemsOf(final_quantize_configs[j])[b])

(***************************************************************************)
(* C16                                                                     *)
(***************************************************************************)
IsFlat(graph) == \A k \in DOMAIN graph : Subgraphs(graph[k]) = <<>>

\* C16: on a graph without nested subgraphs get_operators returns exactly the
\* operator names of its top-level nodes, and two calls on the same graph
\* return the same set (whatever was inventoried in between).
C16_FlatInventory ==
    /\ \A k \in DOMAIN returned :
          IsFlat(returned[k].graph) =>
             returned[k].operators = { n.op_type : n \in Range(returned[k].graph) }
    /\ \A k, l \in DOMAIN returned :
          returned[k].graph = returned[l].graph => returned[k].operators = returned[l].operators

\* a call on a graph without subgraphs has returned after a call on a graph
\* with other operators
C16_Witness ==
    /\ Len(returned) = 2
    /\ IsFlat(returned[2].graph) /\ returned[2].graph # <<>>
    /\ \E n \in Range(returned[1].graph) : n.op_type \notin returned[2].operators

(***************************************************************************)
(* C17                                                                     *)
(***************************************************************************)
\* every node of a graph: the nodes found any number of GRAPH attributes down
AllNodes(graph) == UNION { NodesAtDepth(graph, d) : d \in 0..(MaxNest + 1) }

\* C17: get_operators returns exactly the operator names of the nodes
\* reachable through attributes that carry a nested graph, at every depth:
\* none is missing and none is extra.
C17_NestedInventory ==
    \A k \in DOMAIN returned :
        /\ \A n \in AllNodes(returned[k].graph) : n.op_type \in returned[k].operators
        /\ \A op \in returned[k].operators :
              \E n \in AllNodes(returned[k].graph) : n.op_type = op

\* a call has returned an operator that only a node at the deepest level has
C17_Witness ==
    \E k \in DOMAIN returned :
        /\ \E n \in NodesAtDepth(returned[k].graph, MaxNest) : n.op_type = "Conv"
        /\ \A d \in 0..(MaxNest - 1) :
              \A n \in NodesAtDepth(returned[k].graph, d) : n.op_type # "Conv"
        /\ "Conv" \in returned[k].operators

(***************************************************************************)
(* C18: half-precision conversions keep the declared I/O types.            *)
(***************************************************************************)

HalfConversions ==
    {"quantize_fp16", "convert_float_to_float16", "convert_float_to_float16_external"}

\* convert_float_to_float16 rewrites the declared element types of the graph
\* inputs and outputs to float16 unless it is called with keep_io_types=True
IOTypes(m) ==
    IF \E i \in DOMAIN m.q :
          m.q[i].fn \in HalfConversions /\ m.q[i].kw.keep_io_types # Some(TRUE)
    THEN "float16"
    ELSE "float32"

\* C18: every half-precision conversion (the fp16 mode, the second stage of
\* q4f16, the fallback for graphs the converter cannot shape-infer) is called
\* with keep_io_types=True, so the declared I/O element types of the converted
\* graph are those of the graph it was given.
C18_KeepIoTypes ==
    \A k \in DOMAIN log :
        log[k].ev \in HalfConversions =>
            /\ log[k].kw.keep_io_types = Some(TRUE)
            /\ IOTypes(After(log[k])[1]) = IOTypes(log[k].model_in[1])

C18_Witness ==
    \E k, l \in DOMAIN log :
        /\ log[k].ev = "quantize_fp16" /\ log[k].mode = FP16
        /\ log[l].ev = "quantize_fp16" /\ log[l].mode = Q4F16
        /\ log[l].model_in[1].q # <<>>
        /\ log[l].kw.disable_shape_infer = Some(TRUE)

(***************************************************************************)
(* C19: the jobs of a batch are independent.                               *)
(***************************************************************************)

\* the document at path p when the run started
InitialAt(p) == { f.data : f \in { g \in initial.fs : g.dir = p.dir /\ g.name = p.name } }

\* C19: jobs are independent: whatever jobs ran before it, a job reads the
\* source file the batch started with, as it was then, so neither its source
\* nor its output depends on the order of the jobs.
C19_IndependentJobs ==
    \A k \in Events({"load"}) :
        /\ <<log[k].src, log[k].mode>> \in Batch
        /\ log[k].model_in \in { Some(d) : d \in InitialAt(log[k].src) }

(***************************************************************************)
(* C20: the states of a job of quantize.py.                                *)
(***************************************************************************)

\* the state of a job, read off the position of the script and the history:
\* Pending before onnx.load_model, Loaded once the graph is decoded, Resolved
\* once the arguments of the quantizer are fixed, Quantized once the last
\* quantizer has run, Persisted once check_and_save_model has written the
\* output, Failed once the job has raised
JobState(job) ==
    IF Raised(job) THEN "Failed"
    ELSE IF Persisted(job) THEN "Persisted"
    ELSE IF pc \in {"load", "resolve", "quantize", "fp16", "save"}
              /\ job = <<model_path, mode>>
      THEN CASE pc = "load" -> "Pending"
             [] pc = "resolve" -> "Loaded"
             [] pc \in {"quantize", "fp16"} -> "Resolved"
             [] pc = "save" -> "Quantized"
    ELSE "Pending"

JobTransitions ==
    { <<"Pending", "Loaded">>, <<"Loaded", "Resolved">>, <<"Resolved", "Quantized">>,
      <<"Quantized", "Persisted">> }
      \cup { <<a, "Failed">> : a \in {"Pending", "Loaded", "Resolved", "Quantized"} }

\* a step changes the state of a job along the arrows only, and a job that
\* becomes Failed leaves its error behind
LegalStep(job) ==
    JobState(job)' # JobState(job) =>
        /\ <<JobState(job), JobState(job)'>> \in JobTransitions
        /\ JobState(job)' = "Failed" => pc' = "raised" /\ err' # ""

\* C20 (the order of the states): no step of quantize.py makes a job skip,
\* revisit or leave a state against the arrows Pending -> Loaded -> Resolved
\* -> Quantized -> Persisted | Failed.
C20_StateOrder ==
    [][Q => \A job \in Batch : LegalStep(job)]_vars

\* C20: every job moves through Pending, Loaded, Resolved, Quantized in that
\* order and ends in Persisted or Failed: each step follows the arrows, an
\* error moves the job to Failed with the error kept, and when the run is over
\* every job of the batch is Persisted or Failed.
C20_JobLifecycle ==
    [][Q => \A job \in Batch :
              /\ LegalStep(job)
              /\ Terminated' => JobState(job)' \in {"Persisted", "Failed"}]_vars

(***************************************************************************)
(* C21: when the operator inventory is computed.                           *)
(***************************************************************************)
EightBitModes == {Q8, QI8, QU8}

\* C21 (as stated): get_operators runs for jobs of the q8 mode only.
C21_InventoryOnlyAuto ==
    \A job \in inventoried : job[2] = Q8

\* C21: quantize.py computes the operator inventory for q8 jobs only;
\* convert.py computes it for the jobs of the three 8-bit modes (it records it
\* in the metadata) and for no other mode; in either script the weight type
\* of a qi8 or qu8 job is fixed whatever the inventory holds.
C21_InventoryWhenNeeded ==
    /\ \A job \in inventoried :
          IF Q THEN job[2] = Q8 ELSE job[2] \in EightBitModes
    /\ \A k \in Events(EightBitCalls) :
          /\ log[k].mode = QI8 => log[k].kw.weight_type = Some("QInt8")
          /\ log[k].mode = QU8 => log[k].kw.weight_type = Some("QUInt8")

C21_Witness ==
    /\ C
    /\ \E k \in Events(EightBitCalls) :
          /\ log[k].mode = QI8
          /\ <<log[k].src, QI8>> \in inventoried
          /\ "Conv" \in c_get_operators(log[k].model_in[1])
    /\ \E k \in Events({"convert_float_to_float16"}) :
          <<log[k].src, FP16>> \notin inventoried

(***************************************************************************)
(* C22: half-precision documents are sorted before they are written.       *)
(***************************************************************************)
\* C22: every half-precision document that is persisted (fp16 and q4f16) was
\* topologically sorted after its conversion: each node comes after the
\* producers of its inputs.
C22_SortedBeforePersisted ==
    \A k \in Events({"save"}) :
        log[k].mode \in {FP16, Q4F16} => log[k].model_in[1].toposorted

(***************************************************************************)
(* C23: when shape inference is disabled.                                  *)
(***************************************************************************)
\* C23: a half-precision conversion runs without shape inference exactly when
\* the serialized size of the graph it is given is at or above the ceiling:
\* below the ceiling shape inference stays enabled, at the ceiling it is off.
C23_ShapeInferenceTrigger ==
    \A k \in Events(HalfConversions) :
        (log[k].kw.disable_shape_infer = Some(TRUE)) <=> Oversized(log[k].model_in[1])

(***************************************************************************)
(* C24: what the metadata records of an 8-bit job.                         *)
(***************************************************************************)
\* the entry of job (src, m) in the metadata convert.py has collected
RecordedFor(src, m) ==
    UNION { { e.config.per_model_config[n] :
                n \in { i \in DOMAIN e.config.per_model_config :
                          e.config.per_model_config[i].stem = StemOf(src.name) } }
            : e \in { c \in Range(final_quantize_configs) : c.mode = m } }

\* C24: when convert.py has written the metadata, every 8-bit job that was
\* quantized and persisted has, under the stem of its file, the weight type
\* its quantizer was called with and the operator set of its graph.
C24_WeightTypeRecorded ==
    (C /\ pc = "done") =>
        \A k \in Events(EightBitCalls) :
            (\E l \in Events({"save"}) : l > k /\ SameJob(k, l)) =>
                \E r \in RecordedFor(log[k].src, log[k].mode) :
                    /\ Some(r.weight_type) = log[k].kw.weight_type
                    /\ r.op_types = c_get_operators(log[k].model_in[1])

(***************************************************************************)
(* C25: the order of the jobs.                                             *)
(***************************************************************************)
JobStarts == Events({"load", "load_failed"})
JobEnds == {"save", "load_failed", "quantizer_failed", "save_failed"}

\* one job at a time: when a job starts, every job that started before it has
\* ended, persisted or failed
OneJobAtATime ==
    \A k, l \in JobStarts :
        k < l => \E j \in k..(l - 1) : log[j].ev \in JobEnds /\ SameJob(k, j)

\* all the modes of a file before the next file: once a job of another file
\* has started, no job of the earlier file starts any more
FileMajor ==
    \A k, l, n \in JobStarts :
        (k < l /\ l < n /\ log[k].src # log[l].src) => log[n].src # log[k].src

\* all the files of a mode before the next mode
ModeMajor ==
    \A k, l, n \in JobStarts :
        (k < l /\ l < n /\ log[k].mode # log[l].mode) => log[n].mode # log[k].mode

\* C25 (as stated): the jobs run one at a time and file by file, in both scripts.
C25_SequentialFileMajor ==
    OneJobAtATime /\ FileMajor

\* C25: the jobs run one at a time; quantize.py runs every mode of a file
\* before the next file, convert.py runs every file of a mode before the next mode.
C25_SequentialOrder ==
    /\ OneJobAtATime
    /\ Q => FileMajor
    /\ C => ModeMajor

C25_Witness ==
    /\ Q
    /\ \E k, l, n \in Events({"load"}) :
          /\ k < l /\ l < n
          /\ log[k].src = log[l].src /\ log[k].mode # log[l].mode
          /\ log[n].src # log[k].src
          /\ \E j \in Events({"save"}) : j < l /\ SameJob(k, j)

(***************************************************************************)
(* C26: the files convert.py hands to quantize().                          *)
(***************************************************************************)
InQuantizeC ==
    C /\ pc \in {"c_load", "c_resolve", "c_quantize", "c_fp16", "c_fp16_except", "c_save",
                  "c_return"}

\* C26: convert.py hands every mode exactly the exported .onnx documents the
\* run started with, and no job of a mode reads a file that a job of an
\* earlier mode wrote, also after a mode has failed part-way.
C26_OnlyExportedInputs ==
    /\ InQuantizeC => Range(model_names_or_paths) = EligibleInputs
    /\ C => \A k \in JobStarts : \A j \in Events({"save"}) :
                (j < k /\ log[j].mode # log[k].mode) => log[j].out # log[k].src

(***************************************************************************)
(* C27: outputs and inputs do not meet.                                    *)
(***************************************************************************)
\* C27: no job writes to the path of a source file of the batch, also when
\* the outputs go to the folder of the inputs and the folder holds m.onnx
\* together with m_fp16.onnx.
C27_InputsNeverOverwritten ==
    \A k \in Events({"save"}) : log[k].out \notin EligibleInputs

(***************************************************************************)
(* C28: a document is written only once it is quantized.                   *)
(***************************************************************************)
\* the write of step k comes right after a quantizer call of the same job
\* and writes what that call left
WrittenAfterQuantized(k) ==
    /\ k > 1
    /\ log[k - 1].ev \in QuantizerCalls
    /\ SameJob(k - 1, k)
    /\ log[k].model_in = After(log[k - 1])

\* file f is the document of a job whose quantization step completed
ProducedByAJob(f) ==
    \E k \in Events({"save"}) :
        /\ log[k].out.name = f.name
        /\ log[k].model_in = Some(f.data)
        /\ WrittenAfterQuantized(k)

\* f is where a job of the batch writes, or where convert.py moves it to
UnderOutputName(f) ==
    /\ f.dir \in (IF Q THEN {args.output_folder} ELSE {output_model_folder, onnx_folder})
    /\ \E job \in Batch : f.name = ExpectedOutput(job[1], job[2]).name

\* C28 (as stated): a job whose quantizer raises leaves nothing at its output
\* path, and when the run has ended every file under the output name of a job
\* is the document of a job whose quantization step completed.
C28_NothingButOutputs ==
    /\ (log # <<>> /\ log[Len(log)].ev = "quantizer_failed") => ~Exists(log[Len(log)].out)
    /\ Terminated => \A f \in fs : UnderOutputName(f) => ProducedByAJob(f)

\* C28: a job writes its output only after its quantization step has
\* completed, and a job whose quantizer raises writes nothing: every .onnx
\* file is either a document the run started with, unchanged, or the document
\* of a job whose quantization step completed.
C28_WrittenAfterQuantized ==
    /\ \A k \in Events({"save"}) : WrittenAfterQuantized(k)
    /\ \A k \in Events({"quantizer_failed"}) :
          \A l \in Events({"save"}) : ~SameJob(k, l)
    /\ \A f \in fs :
          EndsWith(f.name, S_onnx) =>
             \/ \E g \in initial.fs : g.name = f.name /\ g.data = f.data
             \/ ProducedByAJob(f)

\* one job has written its document, a later job's quantizer has raised, and
\* nothing is at the output path of that job
C28_Witness ==
    \E k \in Events({"quantizer_failed"}) :
        /\ ~Exists(log[k].out)
        /\ \E l \in Events({"save"}) : l < k /\ Exists(log[l].out)

(***************************************************************************)
(* C29: delivered documents and their metadata.                            *)
(***************************************************************************)
\* the modes that have an entry in the written quantize_config.json
ModesInMetadata ==
    UNION { { d.data[j].mode : j \in DOMAIN d.data }
            : d \in { g \in fs : g.dir = output_model_folder
                                  /\ g.name = <<"quantize_config.json">> } }

\* C29: when convert.py has ended, every quantized document in the onnx
\* folder has an entry for its mode in the written metadata.
C29_DeliveredWithMetadata ==
    (C /\ pc = "done") =>
        \A f \in fs :
            f.dir = onnx_folder =>
                \A k \in Events({"save"}) :
                    (log[k].out.name = f.name /\ log[k].model_in = Some(f.data)) =>
                        log[k].mode \in ModesInMetadata

(***************************************************************************)
(* C30: the quant type of the bnb4 mode.                                   *)
(***************************************************************************)
Bnb4Calls == {"quantize_bnb4", "MatMulBnb4Quantizer"}

\* C30: the bnb4 quantizer is called with the quant type the command line
\* chose: FP4 (0) is passed as FP4, and NF4 is passed only when NF4 was chosen
\* or the option was left at its default.
C30_QuantTypeAsChosen ==
    \A k \in Events(Bnb4Calls) :
        /\ log[k].kw.quant_type = args.quant_type
        /\ log[k].kw.quant_type = Some(NF4) => args.quant_type # Some(FP4)

\* both scripts' cases: a bnb4 quantizer was called with FP4
C30_Witness ==
    \E k \in Events(Bnb4Calls) :
        /\ args.quant_type = Some(FP4)
        /\ log[k].kw.quant_type = Some(FP4)
        /\ \E l \in Events({"save"}) : l > k /\ SameJob(k, l)

====
